---- MODULE Spec2Model ----
(***************************************************************************)
(* Roku web remote: the discovery aggregator (DeviceDiscovery), the        *)
(* protocol translator (RokuService), the command router (express routes)  *)
(* and the page (RokuRemoteApp, RokuAPI), modelled as state machines       *)
(* translated from the JavaScript.                                         *)
(***************************************************************************)
EXTENDS Integers, Sequences, FiniteSets, TLC

(***************************************************************************)
(* Bounds of the model.                                                    *)
(***************************************************************************)
\* number of distinct device addresses that answer on the network
NumAddresses == 2
\* largest number of records (answers plus additionals) in one response
MaxRecords == 2
\* largest configured maxDevices (MAX_DISCOVERY_DEVICES)
MaxCap == 2
\* largest number of browser requests of one kind awaiting their response
MaxInFlight == 2
\* largest number of interval timers the browser holds at once
MaxTimers == 2

(***************************************************************************)
(* Values.                                                                 *)
(***************************************************************************)
\* undefined / empty string: falsy in JavaScript
NoData == ""

AddressPool == <<"10.0.0.5", "10.0.0.6", "10.0.0.7", "10.0.0.8">>

Addresses == {AddressPool[i] : i \in 1..NumAddresses}

RokuNames == {"Roku Ultra.local"}

OtherNames == {"printer.local"}

Names == RokuNames \cup OtherNames

\* record.name.includes('Roku')
ContainsRoku(name) == name \in RokuNames

\* the records an mDNS response can carry: address records of either kind of
\* name, and for the device's name an address record without data, a pointer
\* record and a text record
DnsRecords ==
    [name : Names, type : {"A"}, data : Addresses]
        \cup [name : RokuNames, type : {"A"}, data : {NoData}]
        \cup [name : RokuNames, type : {"PTR"}, data : {"_ecp-server._tcp.local"}]
        \cup [name : RokuNames, type : {"TXT"}, data : {"txt"}]

RECURSIVE SeqsUpTo(_, _)
SeqsUpTo(S, n) ==
    IF n = 0 THEN {<<>>}
    ELSE LET shorter == SeqsUpTo(S, n - 1)
         IN  shorter \cup {Append(s, x) : s \in {t \in shorter : Len(t) = n - 1}, x \in S}

\* a response: answers and additionals, MaxRecords records in all at most
SplitsOf(s) ==
    {[answers     |-> [i \in 1..k |-> s[i]],
      additionals |-> [i \in 1..(Len(s) - k) |-> s[k + i]]] : k \in 0..Len(s)}

Responses == UNION {SplitsOf(s) : s \in SeqsUpTo(DnsRecords, MaxRecords)}

VARIABLES
    maxDevices,     \* this.maxDevices
    promiseState,   \* "none" | "pending" | "resolved" | "rejected"
    discoveredMap,  \* the session Map, as its entries in insertion order
    timer,          \* "unset" | "armed" | "fired" | "cleared"
    destroyCalls,   \* calls of mDns.destroy()
    resolveCalls,   \* calls of resolve()
    result,         \* the value the promise settled with
    resolvedBy,     \* "none" | "timer" | "cap" | "error"
    late,           \* TRUE once the listener delivered an event after destroy
    lastEvent,      \* the callback that ran last: "none" | "discover" | "timer" | "response" | "error"
    dupSeen         \* a response re-announced an address the session already held

dvars == <<maxDevices, promiseState, discoveredMap, timer, destroyCalls,
           resolveCalls, result, resolvedBy, late, lastEvent, dupSeen>>

(***************************************************************************)
(* DeviceDiscovery: the session Map.                                       *)
(***************************************************************************)
MapHas(map, key) == \E i \in 1..Len(map) : map[i].ip = key

\* a Map.set that never overwrites
MapSetAlwaysAppends(map, key, device) == Append(map, device)

\* Map.prototype.set: overwrite in place, or append in insertion order
MapSet(map, key, device) ==
    IF MapHas(map, key)
    THEN [i \in 1..Len(map) |-> IF map[i].ip = key THEN device ELSE map[i]]
    ELSE Append(map, device)

\* Array.from(map.values())
MapValues(map) == map

\* Array.prototype.slice(0, n)
Slice(list, n) == [i \in 1..(IF n < Len(list) THEN n ELSE Len(list)) |-> list[i]]

(***************************************************************************)
(* DeviceDiscovery._extractDeviceInfo, _processResponse, _normalizeDevice  *)
(***************************************************************************)
\* allRecords.find(r => r.type === type && r.name === name): index or 0
FindRecord(allRecords, type, name) ==
    LET hits == {i \in 1..Len(allRecords) :
                    allRecords[i].type = type /\ allRecords[i].name = name}
    IN  IF hits = {} THEN 0 ELSE CHOOSE i \in hits : \A j \in hits : i <= j

\* the device built for a record, ip = NoData standing for the null result
ExtractDeviceInfo(record, allRecords) ==
    LET a   == FindRecord(allRecords, "A", record.name)
        t   == FindRecord(allRecords, "TXT", record.name)
        ip  == IF a # 0 THEN allRecords[a].data ELSE NoData
        txt == IF t # 0 /\ allRecords[t].data # NoData THEN allRecords[t].data ELSE NoData
    IN  [name |-> record.name, type |-> "roku", port |-> 8060, ip |-> ip, text |-> txt]

\* the body of the forEach callback for one record
ProcessRecord(record, allRecords, map) ==
    LET device == ExtractDeviceInfo(record, allRecords)
        m1 == IF record.name # NoData /\ ContainsRoku(record.name) /\ device.ip # NoData
              THEN MapSet(map, device.ip, device)
              ELSE map
        bare == [name |-> record.name, ip |-> record.data, port |-> 8060,
                 type |-> "roku", text |-> NoData]
    IN  IF record.type = "A" /\ record.data # NoData /\ ~MapHas(m1, bare.ip)
        THEN MapSet(m1, bare.ip, bare)
        ELSE m1

RECURSIVE ProcessFrom(_, _, _)
ProcessFrom(i, allRecords, map) ==
    IF i > Len(allRecords) THEN map
    ELSE ProcessFrom(i + 1, allRecords, ProcessRecord(allRecords[i], allRecords, map))

ProcessResponse(response, map) ==
    ProcessFrom(1, response.answers \o response.additionals, map)

\* a _normalizeDevice whose url always names the default port
NormalizeDeviceDefaultUrl(device) ==
    LET port == IF device.port = 0 THEN 8060 ELSE device.port
    IN  [ip   |-> device.ip,
         name |-> IF device.name = NoData THEN "Unknown Roku Device" ELSE device.name,
         port |-> port,
         type |-> IF device.type = NoData THEN "roku" ELSE device.type,
         url  |-> <<"http://", device.ip, ":", 8060>>]

NormalizeDevice(device) ==
    LET port == IF device.port = 0 THEN 8060 ELSE device.port
    IN  [ip   |-> device.ip,
         name |-> IF device.name = NoData THEN "Unknown Roku Device" ELSE device.name,
         port |-> port,
         type |-> IF device.type = NoData THEN "roku" ELSE device.type,
         url  |-> <<"http://", device.ip, ":", port>>]

NormalizeAll(list) == [i \in 1..Len(list) |-> NormalizeDevice(list[i])]

\* some address record of the response carries an address that the map holds
\* already or that an earlier record of the same response carries
Reannounces(response, map) ==
    LET all == response.answers \o response.additionals
    IN  \E i \in 1..Len(all) :
            /\ all[i].type = "A"
            /\ all[i].data # NoData
            /\ \/ MapHas(map, all[i].data)
               \/ \E j \in 1..(i - 1) : all[j].type = "A" /\ all[j].data = all[i].data

(***************************************************************************)
(* DeviceDiscovery.discover: the promise and its three exit paths.         *)
(***************************************************************************)
\* resolve(value): settles a pending promise, a no-op on a settled one
Resolve(value, by) ==
    /\ resolveCalls' = resolveCalls + 1
    /\ IF promiseState = "pending"
       THEN /\ promiseState' = "resolved"
            /\ result' = value
            /\ resolvedBy' = by
       ELSE UNCHANGED <<promiseState, result, resolvedBy>>

\* clearTimeout(timer): a no-op once the timer has fired
ClearTimeout == timer' = IF timer = "armed" THEN "cleared" ELSE timer

\* the listener delivers an event: while it is open, or the one event that
\* was already queued when it was destroyed
Delivered ==
    /\ promiseState # "none"
    /\ destroyCalls = 0 \/ ~late
    /\ late' = (destroyCalls # 0)

\* discover(timeout): the promise executor
Discover ==
    /\ promiseState = "none"
    /\ promiseState' = "pending"
    /\ discoveredMap' = <<>>
    /\ timer' = "armed"
    /\ lastEvent' = "discover"
    /\ UNCHANGED <<maxDevices, destroyCalls, resolveCalls, result, resolvedBy, late,
                   dupSeen>>

\* the setTimeout callback
OnTimer ==
    /\ timer = "armed"
    /\ timer' = "fired"
    /\ destroyCalls' = destroyCalls + 1
    /\ Resolve(NormalizeAll(Slice(MapValues(discoveredMap), maxDevices)), "timer")
    /\ lastEvent' = "timer"
    /\ UNCHANGED <<maxDevices, discoveredMap, late, dupSeen>>

\* mDns.on('response', ...)
OnResponse(response) ==
    /\ Delivered
    /\ IF Len(discoveredMap) >= maxDevices
       THEN /\ ClearTimeout
            /\ destroyCalls' = destroyCalls + 1
            /\ Resolve(NormalizeAll(MapValues(discoveredMap)), "cap")
            /\ UNCHANGED <<discoveredMap, dupSeen>>
       ELSE /\ discoveredMap' = ProcessResponse(response, discoveredMap)
            /\ dupSeen' = (dupSeen \/ Reannounces(response, discoveredMap))
            /\ UNCHANGED <<timer, destroyCalls, resolveCalls, promiseState, result,
                           resolvedBy>>
    /\ lastEvent' = "response"
    /\ UNCHANGED maxDevices

\* an error handler that rejects the promise
OnErrorRejects ==
    /\ Delivered
    /\ ClearTimeout
    /\ destroyCalls' = destroyCalls + 1
    /\ promiseState' = IF promiseState = "pending" THEN "rejected" ELSE promiseState
    /\ lastEvent' = "error"
    /\ UNCHANGED <<maxDevices, discoveredMap, dupSeen, resolveCalls, result, resolvedBy>>

\* mDns.on('error', ...)
OnError ==
    /\ Delivered
    /\ ClearTimeout
    /\ destroyCalls' = destroyCalls + 1
    /\ Resolve(NormalizeAll(MapValues(discoveredMap)), "error")
    /\ lastEvent' = "error"
    /\ UNCHANGED <<maxDevices, discoveredMap, dupSeen>>

DInit ==
    /\ maxDevices \in 1..MaxCap
    /\ promiseState = "none"
    /\ discoveredMap = <<>>
    /\ timer = "unset"
    /\ destroyCalls = 0
    /\ resolveCalls = 0
    /\ result = <<>>
    /\ resolvedBy = "none"
    /\ late = FALSE
    /\ lastEvent = "none"
    /\ dupSeen = FALSE

\* the responses that can arrive next: the handler does not read a response
\* that finds the map at the cap, so one response stands for all of them there
Arriving ==
    IF Len(discoveredMap) >= maxDevices
    THEN {[answers |-> <<>>, additionals |-> <<>>]}
    ELSE Responses

(***************************************************************************)
(* RokuService: values.  Strings that the code takes apart (addresses,     *)
(* typed text, URLs) are sequences of tokens.                              *)
(***************************************************************************)
\* largest number of app elements in a device reply
MaxApps == 2

\* device addresses as the router receives them (:ip), without and with a port
DeviceAddresses == {<<"10.0.0.5">>, <<"10.0.0.5", ":", "8061">>}

Endpoints == {"info", "apps", "active", "keypress", "text", "launch", "media"}

CommandEndpoints == {"keypress", "text", "launch"}

\* a field of the JSON request body: absent, or present with a string value
Absent == [present |-> FALSE, val |-> <<>>]

Field(v) == [present |-> TRUE, val |-> v]

\* the required body field of each command endpoint, as a client can send it
FieldValues(endpoint) ==
    CASE endpoint = "keypress" -> {Absent, Field(<<>>), Field(<<"Home">>)}
      [] endpoint = "text"     -> {Absent, Field(<<>>), Field(<<"a", " ", "b">>),
                                   Field(<<"A", "&", "0">>), Field(<<"(", "?", "/">>)}
      [] endpoint = "launch"   -> {Absent, Field(<<>>), Field(<<"12">>)}
      [] OTHER                 -> {Absent}

\* !value for a body field: undefined and the empty string are falsy
Falsy(field) == ~field.present \/ field.val = <<>>

\* <app> elements of a reply as xml2js presents them: with attributes ($) and
\* text (_), or as a bare string when the element has no attributes
AppEntries ==
    {[attrs |-> TRUE, id |-> "12", type |-> "appl", version |-> "5.1", text |-> "Netflix"],
     [attrs |-> TRUE, id |-> "13", type |-> "appl", version |-> NoData, text |-> "Hulu"],
     [attrs |-> FALSE, id |-> NoData, type |-> NoData, version |-> NoData, text |-> "Roku"]}

\* a reply body that parseStringPromise rejects
Malformed == [wellFormed |-> FALSE, root |-> NoData, apps |-> <<>>]

\* reply bodies: malformed, or a document with a root element and app children
Bodies ==
    {Malformed} \cup
    [wellFormed : {TRUE}, root : {"active-app", "apps", "player"},
     apps : SeqsUpTo(AppEntries, MaxApps)]

ErrorCodes == {"ECONNREFUSED", "ETIMEDOUT", "ENOTFOUND", "ECONNABORTED", "EHOSTUNREACH"}

\* what axios(config) settles with under validateStatus: () => true: a response
\* of any status, or a rejection with an error code
AxiosOutcomes ==
    [kind : {"response"}, status : {200}, body : Bodies, code : {NoData}]
        \cup [kind : {"response"}, status : {399, 400, 404, 500}, body : {Malformed},
              code : {NoData}]
        \cup [kind : {"error"}, status : {0}, body : {Malformed}, code : ErrorCodes]

NoOutcome == [kind |-> "none", status |-> 0, body |-> Malformed, code |-> NoData]

\* error messages
NoError == [kind |-> "none"]

RokuApiError(status) == [kind |-> "RokuApiError", status |-> status]

CannotConnect(url) == [kind |-> "CannotConnect", url |-> url]

ConnectionTimeout == [kind |-> "ConnectionTimeout"]

AxiosError(code) == [kind |-> "AxiosError", code |-> code]

RequiredMessage(endpoint) == [kind |-> "Required", field |-> endpoint]

\* values
Null == [tag |-> "null"]

NoValue == [tag |-> "undefined"]

VARIABLES
    rpc,          \* "idle" | "received" | "calling" | "settled" | "responded"
    req,          \* [endpoint, ip, arg]: the request the router is serving
    call,         \* the axios config the translator built: [method, url, data]
    outbound,     \* the requests issued to the device for req, in order
    axiosResult,  \* what the last axios call settled with
    opResult,     \* what the RokuService method settled with
    envelope      \* the response the router sent

tvars == <<rpc, req, call, outbound, axiosResult, opResult, envelope>>

(***************************************************************************)
(* RokuService: pure parts.                                                *)
(***************************************************************************)
\* ip.includes(':')
HasColon(ip) == \E i \in 1..Len(ip) : ip[i] = ":"

BuildUrl(ip, endpoint) ==
    LET baseUrl == IF HasColon(ip) THEN ip ELSE ip \o <<":", "8060">>
    IN  <<"http://">> \o baseUrl \o endpoint

Unreserved == {"a", "b", "A", "0", "-", "_", ".", "!", "~", "*", "'", "(", ")"}

PercentCode(ch) ==
    CASE ch = " " -> "%20"
      [] ch = "/" -> "%2F"
      [] ch = "&" -> "%26"
      [] OTHER    -> "%3F"

\* an escaping that replaces blanks only
EncodeBlanksOnly(text) ==
    [i \in 1..Len(text) |-> IF text[i] = " " THEN "%20" ELSE text[i]]

\* encodeURIComponent
EncodeURIComponent(text) ==
    [i \in 1..Len(text) |-> IF text[i] \in Unreserved THEN text[i] ELSE PercentCode(text[i])]

\* the method, URL and data each operation hands to _makeRequest
OperationCall(endpoint, ip, arg) ==
    CASE endpoint = "info"     -> [method |-> "GET", data |-> NoValue,
                                   url |-> BuildUrl(ip, <<"/query/device-info">>)]
      [] endpoint = "apps"     -> [method |-> "GET", data |-> NoValue,
                                   url |-> BuildUrl(ip, <<"/query/apps">>)]
      [] endpoint = "active"   -> [method |-> "GET", data |-> NoValue,
                                   url |-> BuildUrl(ip, <<"/query/active-app">>)]
      [] endpoint = "keypress" -> [method |-> "POST", data |-> NoValue,
                                   url |-> BuildUrl(ip, <<"/keypress/">> \o arg.val)]
      [] endpoint = "text"     -> [method |-> "POST", data |-> NoValue,
                                   url |-> BuildUrl(ip, <<"/keypress/Lit_">>
                                                \o EncodeURIComponent(arg.val))]
      [] endpoint = "launch"   -> [method |-> "POST", data |-> NoValue,
                                   url |-> BuildUrl(ip, <<"/launch/">> \o arg.val)]
      [] endpoint = "media"    -> [method |-> "GET", data |-> NoValue,
                                   url |-> BuildUrl(ip, <<"/query/media-search">>)]

Returned(value) == [kind |-> "return", value |-> value, error |-> NoError]

Threw(error) == [kind |-> "throw", value |-> NoValue, error |-> error]

NotInvoked == [kind |-> "none", value |-> NoValue, error |-> NoError]

\* _makeRequest after axios settled: the data, or the error it throws
MakeRequest(outcome, url) ==
    IF outcome.kind = "response"
    THEN IF outcome.status >= 400
         THEN Threw(RokuApiError(outcome.status))
         ELSE Returned([tag |-> "raw", body |-> outcome.body])
    ELSE IF outcome.code = "ECONNREFUSED" THEN Threw(CannotConnect(url))
         ELSE IF outcome.code \in {"ETIMEDOUT", "ENOTFOUND"} THEN Threw(ConnectionTimeout)
         ELSE Threw(AxiosError(outcome.code))

\* the record _parseAppsXml and _parseActiveAppXml build for one app element
AppsRecord(app) ==
    [tag |-> "app", id |-> app.id,
     name |-> IF app.version # NoData THEN app.version ELSE app.text,
     type |-> app.type, version |-> app.version]

ActiveRecord(app) ==
    [tag |-> "app", id |-> app.id, name |-> app.text, type |-> app.type,
     version |-> app.version]

\* _parseAppsXml: a parse failure, or an element without attributes (app.$ is
\* undefined), ends in the catch block
ParseAppsXml(body) ==
    IF ~body.wellFormed THEN [tag |-> "list", items |-> <<>>]
    ELSE LET apps == IF body.root = "apps" THEN body.apps ELSE <<>>
         IN  IF \E i \in 1..Len(apps) : ~apps[i].attrs
             THEN [tag |-> "list", items |-> <<>>]
             ELSE [tag |-> "list", items |-> [i \in 1..Len(apps) |-> AppsRecord(apps[i])]]

\* _parseActiveAppXml
ParseActiveAppXml(body) ==
    IF ~body.wellFormed THEN Null
    ELSE IF body.root # "active-app" \/ body.apps = <<>> THEN Null
    ELSE IF ~body.apps[1].attrs THEN Null
    ELSE ActiveRecord(body.apps[1])

\* _parseMediaXml
ParseMediaXml(body) ==
    IF ~body.wellFormed THEN [tag |-> "media", available |-> FALSE]
    ELSE [tag |-> "parsed", doc |-> body]

\* a getMediaPlayer without its catch block
GetMediaPlayerPropagates(made) ==
    IF made.kind = "return" THEN Returned(ParseMediaXml(made.value.body)) ELSE made

\* getMediaPlayer around _makeRequest
GetMediaPlayer(made) ==
    IF made.kind = "return"
    THEN Returned(ParseMediaXml(made.value.body))
    ELSE Returned([tag |-> "media", available |-> FALSE, error |-> made.error])

\* what each RokuService method settles with, given what _makeRequest did
OperationResult(endpoint, made) ==
    CASE endpoint = "apps" ->
            IF made.kind = "return" THEN Returned(ParseAppsXml(made.value.body)) ELSE made
      [] endpoint = "active" ->
            IF made.kind = "return" THEN Returned(ParseActiveAppXml(made.value.body))
            ELSE made
      [] endpoint = "media" -> GetMediaPlayer(made)
      [] OTHER -> made

(***************************************************************************)
(* The command router.                                                     *)
(***************************************************************************)
NoEnvelope == [status |-> 0, success |-> FALSE, data |-> NoValue, error |-> NoError]

\* a presence check that lets the empty string through
MissingFieldAbsentOnly(endpoint, arg) == endpoint \in CommandEndpoints /\ ~arg.present

\* if (!key) / if (!text) / if (!appId)
MissingField(endpoint, arg) == endpoint \in CommandEndpoints /\ Falsy(arg)

\* a route whose catch block answers with the default status
RouteResponseAlwaysOk(endpoint, op) ==
    IF op.kind = "throw"
    THEN [status |-> 200, success |-> FALSE, data |-> NoValue, error |-> op.error]
    ELSE [status |-> 200, success |-> TRUE, data |-> op.value, error |-> NoError]

\* res.json / res.status(500).json of each route
RouteResponse(endpoint, op) ==
    IF op.kind = "throw"
    THEN [status |-> 500, success |-> FALSE, data |-> NoValue, error |-> op.error]
    ELSE IF endpoint \in CommandEndpoints
         THEN [status |-> 200, success |-> TRUE, data |-> NoValue, error |-> NoError]
         ELSE [status |-> 200, success |-> TRUE, data |-> op.value, error |-> NoError]

\* a request reaches a route
Receive(endpoint, ip, arg) ==
    /\ rpc = "idle"
    /\ rpc' = "received"
    /\ req' = [endpoint |-> endpoint, ip |-> ip, arg |-> arg]
    /\ outbound' = <<>>
    /\ axiosResult' = NoOutcome
    /\ opResult' = NotInvoked
    /\ envelope' = NoEnvelope
    /\ UNCHANGED call

\* the route handler up to its await: validation, then the RokuService method
\* up to await axios(config)
Handle ==
    /\ rpc = "received"
    /\ IF MissingField(req.endpoint, req.arg)
       THEN /\ rpc' = "responded"
            /\ envelope' = [status |-> 400, success |-> FALSE, data |-> NoValue,
                            error |-> RequiredMessage(req.endpoint)]
            /\ UNCHANGED call
       ELSE /\ rpc' = "calling"
            /\ call' = OperationCall(req.endpoint, req.ip, req.arg)
            /\ UNCHANGED envelope
    /\ UNCHANGED <<req, outbound, axiosResult, opResult>>

\* a request that is sent again when it fails
AxiosCallRetries(outcome) ==
    /\ rpc = "calling"
    /\ outbound' = IF outcome.kind = "error" \/ outcome.status >= 400
                   THEN outbound \o <<call, call>>
                   ELSE Append(outbound, call)
    /\ axiosResult' = outcome
    /\ rpc' = "settled"
    /\ UNCHANGED <<req, call, opResult, envelope>>

\* axios(config): one request goes out and settles with outcome
AxiosCall(outcome) ==
    /\ rpc = "calling"
    /\ outbound' = Append(outbound, call)
    /\ axiosResult' = outcome
    /\ rpc' = "settled"
    /\ UNCHANGED <<req, call, opResult, envelope>>

\* the rest of _makeRequest, of the RokuService method and of the route
Respond ==
    /\ rpc = "settled"
    /\ opResult' = OperationResult(req.endpoint, MakeRequest(axiosResult, call.url))
    /\ envelope' = RouteResponse(req.endpoint, opResult')
    /\ rpc' = "responded"
    /\ UNCHANGED <<req, call, outbound, axiosResult>>

\* the router is ready for the next request
Finish ==
    /\ rpc = "responded"
    /\ rpc' = "idle"
    /\ UNCHANGED <<req, call, outbound, axiosResult, opResult, envelope>>

\* the routes that call no RokuService method hand nothing to _makeRequest
NoCall == [method |-> "none", data |-> NoValue, url |-> <<>>]

\* GET /api/devices/discover up to its await: discover(timeout) runs the
\* promise executor
RouteDiscover ==
    /\ rpc = "idle"
    /\ rpc' = "discovering"
    /\ req' = [endpoint |-> "discover", ip |-> <<>>, arg |-> Absent]
    /\ outbound' = <<>>
    /\ axiosResult' = NoOutcome
    /\ opResult' = NotInvoked
    /\ envelope' = NoEnvelope
    /\ call' = NoCall
    /\ Discover

\* the discovery call of the route is in progress, or has settled and the
\* listener may still deliver its queued event
DiscoverRouteOpen == rpc \in {"discovering", "responded"} /\ req.endpoint = "discover"

\* GET /api/devices/discover after its await
RespondDiscover ==
    /\ rpc = "discovering"
    /\ promiseState \in {"resolved", "rejected"}
    /\ opResult' = IF promiseState = "resolved"
                   THEN Returned([tag |-> "devices", items |-> result])
                   ELSE Threw([kind |-> "DiscoveryError"])
    /\ envelope' = RouteResponse("discover", opResult')
    /\ rpc' = "responded"
    /\ UNCHANGED <<req, call, outbound, axiosResult>>

\* the error-handling middleware: a request that a middleware refused (CORS,
\* body parser) is answered here, the message depending on NODE_ENV
MiddlewareError(development) ==
    /\ rpc = "idle"
    /\ rpc' = "responded"
    /\ req' = [endpoint |-> "refused", ip |-> <<>>, arg |-> Absent]
    /\ outbound' = <<>>
    /\ axiosResult' = NoOutcome
    /\ opResult' = NotInvoked
    /\ envelope' = [status |-> 500, success |-> FALSE, data |-> NoValue,
                    error |-> IF development THEN [kind |-> "MiddlewareMessage"]
                              ELSE [kind |-> "InternalServerError"]]
    /\ call' = NoCall

\* the closure of a finished discover call is dropped
ForgetSession ==
    /\ promiseState' = "none"
    /\ discoveredMap' = <<>>
    /\ timer' = "unset"
    /\ destroyCalls' = 0
    /\ resolveCalls' = 0
    /\ result' = <<>>
    /\ resolvedBy' = "none"
    /\ late' = FALSE
    /\ lastEvent' = "none"
    /\ dupSeen' = FALSE
    /\ UNCHANGED maxDevices

TInit ==
    /\ rpc = "idle"
    /\ req = [endpoint |-> "info", ip |-> <<"10.0.0.5">>, arg |-> Absent]
    /\ call = OperationCall("info", <<"10.0.0.5">>, Absent)
    /\ outbound = <<>>
    /\ axiosResult = NoOutcome
    /\ opResult = NotInvoked
    /\ envelope = NoEnvelope

(***************************************************************************)
(* The presentation layer: RokuRemoteApp and the RokuAPI client.           *)
(* The address field holds a sequence of tokens, so that trim() is         *)
(* modelled by what it removes.                                            *)
(***************************************************************************)
Blank == " "

\* addresses a user connects to
Hosts == {<<"10.0.0.5">>, <<"10.0.0.6">>}

\* what the address field can hold
InputValues == Hosts \cup {<<>>, <<Blank>>, <<Blank, "10.0.0.6", Blank>>}

RECURSIVE TrimStart(_)
TrimStart(s) == IF s # <<>> /\ Head(s) = Blank THEN TrimStart(Tail(s)) ELSE s

RECURSIVE TrimEnd(_)
TrimEnd(s) ==
    IF s # <<>> /\ s[Len(s)] = Blank
    THEN TrimEnd([i \in 1..(Len(s) - 1) |-> s[i]])
    ELSE s

\* String.prototype.trim
Trim(s) == TrimEnd(TrimStart(s))

\* the delay startAutoRefresh passes to setInterval
AutoRefreshDelay == 5000

\* this.autoRefreshInterval = null; timer ids are positive
NoTimer == 0

\* localStorage.getItem of a key that was never set
NoItem == <<>>

\* { ip, ...response.data }
ConnectedDevice(ip) == [tag |-> "device", ip |-> ip]

\* the text activeAppName shows before the first refresh
NoAppShown == "-"

\* what GET /api/device/:ip/active brings back to the page
PollReplies ==
    {[kind |-> "app", name |-> "Netflix"], [kind |-> "app", name |-> NoData],
     [kind |-> "none", name |-> NoData], [kind |-> "failed", name |-> NoData]}

VARIABLES
    ipInput,              \* elements.ipInput.value
    currentDevice,        \* app.currentDevice
    rokuCurrentDevice,    \* roku.currentDevice
    autoRefreshInterval,  \* app.autoRefreshInterval
    intervals,            \* interval timers armed in the browser
    localStorage,         \* localStorage item 'roku_device_ip'
    connecting,           \* connect calls awaiting roku.connectDevice, per address
    polling,              \* active-app requests awaiting their reply, per address
    activeAppName,        \* elements.activeAppName.textContent
    deviceIp,             \* elements.deviceIp.textContent
    autoConnect,          \* the setTimeout of loadSavedDevice is pending
    uiEvent,              \* the last step of a connect call; for a success, whether
                          \* startAutoRefresh found a timer to clear
    lastSucceeded,        \* the address of the last connect call that succeeded
    racing                \* the addresses of connect calls that were pending together

fvars == <<ipInput, currentDevice, rokuCurrentDevice, autoRefreshInterval,
           intervals, localStorage, connecting, polling, activeAppName,
           deviceIp, autoConnect, uiEvent, lastSucceeded, racing>>

\* number of requests a per-address counter holds
InFlight(counter) ==
    LET RECURSIVE Sum(_)
        Sum(keys) == IF keys = {} THEN 0
                     ELSE LET k == CHOOSE x \in keys : TRUE
                          IN  counter[k] + Sum(keys \ {k})
    IN  Sum(DOMAIN counter)

\* refreshActiveApp up to its await: the address is read from the field
IssuePoll ==
    /\ InFlight(polling) < MaxInFlight
    /\ polling' = [polling EXCEPT ![Trim(ipInput)] = @ + 1]

\* setInterval: a timer with an id that no armed timer has
SetInterval(armed) ==
    LET free == {id \in 1..MaxTimers : \A t \in armed : t.id # id}
    IN  CHOOSE id \in free : \A other \in free : id <= other

\* a startAutoRefresh that arms a timer without clearing the one it holds
StartAutoRefreshKeepsOld ==
    /\ \E id \in 1..MaxTimers : \A t \in intervals : t.id # id
    /\ autoRefreshInterval' = SetInterval(intervals)
    /\ intervals' = intervals \cup {[id |-> SetInterval(intervals), delay |-> AutoRefreshDelay]}

\* startAutoRefresh
StartAutoRefresh ==
    LET cleared == IF autoRefreshInterval # NoTimer
                   THEN {t \in intervals : t.id # autoRefreshInterval}
                   ELSE intervals
    IN  /\ \E id \in 1..MaxTimers : \A t \in cleared : t.id # id
        /\ autoRefreshInterval' = SetInterval(cleared)
        /\ intervals' = cleared \cup {[id |-> SetInterval(cleared), delay |-> AutoRefreshDelay]}

\* connect up to its await, the field holding value
Connect(value) ==
    LET ip == Trim(value)
    IN  /\ IF ip = <<>>
           THEN /\ uiEvent' = [kind |-> "rejected", ip |-> ip]
                /\ UNCHANGED <<connecting, racing>>
           ELSE /\ InFlight(connecting) < MaxInFlight
                /\ connecting' = [connecting EXCEPT ![ip] = @ + 1]
                /\ uiEvent' = [kind |-> "connecting", ip |-> ip]
                /\ racing' =
                      LET before  == IF InFlight(connecting) = 0 THEN {} ELSE racing
                          pending == {h \in Hosts : connecting'[h] > 0}
                      IN  IF Cardinality(pending) >= 2 THEN before \cup pending
                          ELSE before
        /\ UNCHANGED <<currentDevice, rokuCurrentDevice, autoRefreshInterval,
                       intervals, localStorage, polling, activeAppName, deviceIp,
                       lastSucceeded>>

\* the user edits the address field
EditAddress(value) ==
    /\ ipInput' = value
    /\ ipInput' # ipInput
    /\ UNCHANGED <<currentDevice, rokuCurrentDevice, autoRefreshInterval,
                   intervals, localStorage, connecting, polling, activeAppName,
                   deviceIp, autoConnect, uiEvent, lastSucceeded, racing>>

\* click on Connect, or Enter in the address field
PressConnect == Connect(ipInput) /\ UNCHANGED <<ipInput, autoConnect>>

\* selectDevice(ip) from the discovery list
SelectDevice(ip) ==
    /\ ipInput' = ip
    /\ Connect(ip)
    /\ UNCHANGED autoConnect

\* the timeout that loadSavedDevice set fires
AutoConnect ==
    /\ autoConnect
    /\ autoConnect' = FALSE
    /\ Connect(ipInput)
    /\ UNCHANGED ipInput

\* connect whose catch block leaves the stored address to the failed one
ConnectFailsAndSaves(ip) ==
    /\ connecting[ip] > 0
    /\ connecting' = [connecting EXCEPT ![ip] = @ - 1]
    /\ currentDevice' = Null
    /\ localStorage' = ip
    /\ uiEvent' = [kind |-> "failed", ip |-> ip]
    /\ UNCHANGED <<ipInput, rokuCurrentDevice, autoRefreshInterval, intervals,
                   polling, activeAppName, deviceIp, autoConnect, lastSucceeded, racing>>

\* connect after its await, roku.connectDevice(ip) having returned the device:
\* the address is saved, updateUI refreshes, startAutoRefresh arms the timer
ConnectSucceeds(ip) ==
    /\ connecting[ip] > 0
    /\ connecting' = [connecting EXCEPT ![ip] = @ - 1]
    /\ rokuCurrentDevice' = ConnectedDevice(ip)
    /\ currentDevice' = rokuCurrentDevice'
    /\ localStorage' = ip
    /\ lastSucceeded' = ip
    /\ deviceIp' = Trim(ipInput)
    /\ IssuePoll
    /\ StartAutoRefresh
    /\ uiEvent' = [kind |-> "connected", ip |-> ip,
                   rearmed |-> autoRefreshInterval # NoTimer]
    /\ UNCHANGED <<ipInput, activeAppName, autoConnect, racing>>

\* connect after its await, roku.connectDevice(ip) having thrown (failure
\* envelope, network error, or a reply without data)
ConnectFails(ip) ==
    /\ connecting[ip] > 0
    /\ connecting' = [connecting EXCEPT ![ip] = @ - 1]
    /\ currentDevice' = Null
    /\ uiEvent' = [kind |-> "failed", ip |-> ip]
    /\ UNCHANGED <<ipInput, rokuCurrentDevice, autoRefreshInterval, intervals,
                   localStorage, polling, activeAppName, deviceIp, autoConnect,
                   lastSucceeded, racing>>

\* an armed interval timer fires: refreshActiveApp up to its await
Tick ==
    /\ intervals # {}
    /\ IssuePoll
    /\ UNCHANGED <<ipInput, currentDevice, rokuCurrentDevice, autoRefreshInterval,
                   intervals, localStorage, connecting, activeAppName, deviceIp,
                   autoConnect, uiEvent, lastSucceeded, racing>>

\* roku.getActiveApp: response.data, or null when the request threw
GetActiveApp(reply) ==
    IF reply.kind = "app" THEN [tag |-> "app", name |-> reply.name] ELSE Null

\* refreshActiveApp after its await
PollReturns(target, reply) ==
    /\ polling[target] > 0
    /\ target = <<>> => reply.kind = "failed"
    /\ polling' = [polling EXCEPT ![target] = @ - 1]
    /\ activeAppName' =
          LET active == GetActiveApp(reply)
          IN  IF active # Null
              THEN (IF active.name # NoData THEN active.name ELSE "Unknown")
              ELSE "Home Screen"
    /\ UNCHANGED <<ipInput, currentDevice, rokuCurrentDevice, autoRefreshInterval,
                   intervals, localStorage, connecting, deviceIp, autoConnect,
                   uiEvent, lastSucceeded, racing>>

\* the page after new RokuRemoteApp(), the store holding saved
Loaded(saved) ==
    /\ currentDevice = Null
    /\ rokuCurrentDevice = Null
    /\ autoRefreshInterval = NoTimer
    /\ intervals = {}
    /\ localStorage = saved
    /\ ipInput = saved
    /\ autoConnect = (saved # NoItem)
    /\ connecting = [h \in Hosts |-> 0]
    /\ polling = [h \in Hosts \cup {<<>>} |-> 0]
    /\ activeAppName = NoAppShown
    /\ deviceIp = <<>>
    /\ uiEvent = [kind |-> "none", ip |-> <<>>]
    /\ lastSucceeded = saved
    /\ racing = {}

\* a page that no browser has opened
FIdle == Loaded(NoItem)

\* the page opened in a browser whose store is empty or holds the address a
\* former visit saved
FInit == \E saved \in Hosts \cup {NoItem} : Loaded(saved)

(***************************************************************************)
(* DeviceDiscovery._normalizeDevice on its own.                            *)
(***************************************************************************)
\* ports a stored descriptor can carry, 0 standing for a missing port
StoredPorts == {0, 8060, 8061}

\* descriptors handed to _normalizeDevice, NoData standing for a missing field
StoredDescriptors ==
    [ip : Addresses, name : Names \cup {NoData}, port : StoredPorts,
     type : {"roku", NoData}, text : {"txt", NoData}]

NotNormalized == [tag |-> "undefined"]

VARIABLES
    stored,       \* the argument of _normalizeDevice
    normalized    \* its result

nvars == <<stored, normalized>>

Normalize ==
    /\ normalized = NotNormalized
    /\ normalized' = NormalizeDevice(stored)
    /\ UNCHANGED stored

NIdle ==
    /\ stored = [ip |-> AddressPool[1], name |-> NoData, port |-> 0,
                 type |-> NoData, text |-> NoData]
    /\ normalized = NotNormalized

NInit ==
    /\ stored \in StoredDescriptors
    /\ normalized = NotNormalized

(***************************************************************************)
(* Specifications.                                                         *)
(***************************************************************************)
vars == <<dvars, tvars, fvars, nvars>>

Init == DInit /\ TInit /\ FIdle /\ NIdle

\* a step of the discovery call
DiscoveryNext ==
    \/ Discover /\ UNCHANGED <<tvars, fvars, nvars>>
    \/ OnTimer /\ UNCHANGED <<tvars, fvars, nvars>>
    \/ \E response \in Arriving : OnResponse(response) /\ UNCHANGED <<tvars, fvars, nvars>>
    \/ OnError /\ UNCHANGED <<tvars, fvars, nvars>>

\* a step of the router and the translator
TranslatorNext ==
    \/ \E endpoint \in Endpoints, ip \in DeviceAddresses :
          \E arg \in FieldValues(endpoint) :
              Receive(endpoint, ip, arg) /\ UNCHANGED <<dvars, fvars, nvars>>
    \/ Handle /\ UNCHANGED <<dvars, fvars, nvars>>
    \/ \E outcome \in AxiosOutcomes : AxiosCall(outcome) /\ UNCHANGED <<dvars, fvars, nvars>>
    \/ Respond /\ UNCHANGED <<dvars, fvars, nvars>>
    \/ Finish /\ UNCHANGED <<dvars, fvars, nvars>>

\* a step of the router with all its routes: the device routes, the discover
\* route with the discovery call it awaits, and the error middleware
RouterNext ==
    \/ \E endpoint \in Endpoints, ip \in DeviceAddresses :
          \E arg \in FieldValues(endpoint) :
              Receive(endpoint, ip, arg) /\ UNCHANGED <<dvars, fvars, nvars>>
    \/ Handle /\ UNCHANGED <<dvars, fvars, nvars>>
    \/ \E outcome \in AxiosOutcomes : AxiosCall(outcome) /\ UNCHANGED <<dvars, fvars, nvars>>
    \/ Respond /\ UNCHANGED <<dvars, fvars, nvars>>
    \/ RouteDiscover /\ UNCHANGED <<fvars, nvars>>
    \/ DiscoverRouteOpen /\ OnTimer /\ UNCHANGED <<tvars, fvars, nvars>>
    \/ \E response \in Arriving :
          DiscoverRouteOpen /\ OnResponse(response) /\ UNCHANGED <<tvars, fvars, nvars>>
    \/ DiscoverRouteOpen /\ OnError /\ UNCHANGED <<tvars, fvars, nvars>>
    \/ RespondDiscover /\ UNCHANGED <<dvars, fvars, nvars>>
    \/ \E development \in BOOLEAN :
          MiddlewareError(development) /\ UNCHANGED <<dvars, fvars, nvars>>
    \/ Finish /\ ForgetSession /\ UNCHANGED <<fvars, nvars>>

\* a step of the page
AppNext ==
    \/ \E value \in InputValues : EditAddress(value) /\ UNCHANGED <<dvars, tvars, nvars>>
    \/ PressConnect /\ UNCHANGED <<dvars, tvars, nvars>>
    \/ \E ip \in Hosts : SelectDevice(ip) /\ UNCHANGED <<dvars, tvars, nvars>>
    \/ AutoConnect /\ UNCHANGED <<dvars, tvars, nvars>>
    \/ \E ip \in Hosts : ConnectSucceeds(ip) /\ UNCHANGED <<dvars, tvars, nvars>>
    \/ \E ip \in Hosts : ConnectFails(ip) /\ UNCHANGED <<dvars, tvars, nvars>>
    \/ Tick /\ UNCHANGED <<dvars, tvars, nvars>>
    \/ \E target \in DOMAIN polling, reply \in PollReplies :
          PollReturns(target, reply) /\ UNCHANGED <<dvars, tvars, nvars>>

\* _normalizeDevice applied to a descriptor
NormalizeNext == Normalize /\ UNCHANGED <<dvars, tvars, fvars>>

Next == DiscoveryNext \/ RouterNext \/ AppNext \/ NormalizeNext

\* the whole program
Spec == Init /\ [][Next]_vars

\* one discovery call, the router idle
DiscoverySpec == Init /\ [][DiscoveryNext]_vars

\* one discovery call under the scheduling Node guarantees: the executor runs
\* when discover is called, and an armed timer that is not cleared fires
FairDiscoverySpec ==
    /\ DiscoverySpec
    /\ WF_vars(Discover /\ UNCHANGED <<tvars, fvars, nvars>>)
    /\ WF_vars(OnTimer /\ UNCHANGED <<tvars, fvars, nvars>>)

\* the router serving device requests, no discovery call
TranslatorSpec == Init /\ [][TranslatorNext]_vars

\* the router serving every route, one request at a time
RouterSpec == Init /\ [][RouterNext]_vars

\* the page in one browser tab, the server seen through its replies
AppInit == DInit /\ maxDevices = 1 /\ TInit /\ FInit /\ NIdle

AppSpec == AppInit /\ [][AppNext]_vars

\* _normalizeDevice on every descriptor of StoredDescriptors
NormalizeInit == DInit /\ maxDevices = 1 /\ TInit /\ FIdle /\ NInit

NormalizeSpec == NormalizeInit /\ [][NormalizeNext]_vars

(***************************************************************************)
(* Properties of the discovery aggregator.                                 *)
(***************************************************************************)
\* C1: the list a discover call resolves with has at most maxDevices entries,
\* whichever exit path (timer, cap check, listener error) produced it.
C1_ResultWithinMaxDevices ==
    promiseState = "resolved" => Len(result) <= maxDevices

\* C2: discover never rejects; an error event of the listener that finds the
\* promise pending resolves it with the normalized descriptors collected so far.
C2_ErrorResolvesNeverRejects ==
    /\ [](promiseState # "rejected")
    /\ [][(lastEvent' = "error" /\ promiseState = "pending")
            => /\ promiseState' = "resolved"
               /\ resolvedBy' = "error"
               /\ result' = NormalizeAll(MapValues(discoveredMap))]_vars

\* an error event ended a session that had collected descriptors
C2_Witness ==
    /\ lastEvent = "error"
    /\ promiseState = "resolved"
    /\ resolvedBy = "error"
    /\ Len(result) > 0

\* C3: when the session map has reached exactly maxDevices entries before the
\* deadline, the call has resolved: it does not stay pending until a further
\* response or the timer.
C3_ResolvesWhenCapReached ==
    (timer = "armed" /\ Len(discoveredMap) = maxDevices) => promiseState = "resolved"

\* C4: no two entries of the resolved list have the same address.
C4_NoDuplicateAddress ==
    promiseState = "resolved" =>
        \A i, j \in 1..Len(result) : i # j => result[i].ip # result[j].ip

\* a call resolved with several devices after an address was re-announced
C4_Witness ==
    /\ promiseState = "resolved"
    /\ dupSeen
    /\ Len(result) >= 2

\* C5: when the timer ends the session, the call resolves with the normalized
\* values of the session map at that moment (the empty list when no response
\* arrived).
C5_TimerResolvesWithMapValues ==
    lastEvent = "timer" =>
        /\ promiseState = "resolved"
        /\ resolvedBy = "timer"
        /\ result = NormalizeAll(MapValues(discoveredMap))

\* the parts of C5 that do not depend on the size of the map: a timer that
\* fires on an empty map resolves with the empty list, and under
\* FairDiscoverySpec every call eventually resolves
TimerOnEmptyMapResolvesEmpty ==
    (lastEvent = "timer" /\ discoveredMap = <<>>) =>
        (promiseState = "resolved" /\ result = <<>>)

EventuallyResolves == <>(promiseState = "resolved")

\* C17: in one discover call, under every interleaving of the timer, the
\* responses and the error event, events delivered after a path has finished
\* the session included, the listener is destroyed exactly once, the promise
\* is resolved at most once, and the session map is not modified after the
\* promise has resolved.
C17_OneShotCompletion ==
    [][/\ (promiseState = "pending" /\ promiseState' = "resolved") =>
             (destroyCalls' = 1 /\ resolveCalls' = 1)
       /\ promiseState = "resolved" =>
             /\ destroyCalls' = destroyCalls
             /\ resolveCalls' = resolveCalls
             /\ discoveredMap' = discoveredMap
             /\ result' = result]_vars

\* the step is the handler processing response in a pending session whose map
\* is below the cap
ProcessedStep(response) ==
    /\ lastEvent' = "response"
    /\ promiseState = "pending"
    /\ Len(discoveredMap) < maxDevices
    /\ discoveredMap' = ProcessResponse(response, discoveredMap)
    /\ dupSeen' = (dupSeen \/ Reannounces(response, discoveredMap))

\* the records of a response in the order _processResponse visits them
AllRecords(response) == response.answers \o response.additionals

\* C18: of two observations that carry the same address the later one is
\* stored: after a response has been processed, the descriptor of the address
\* its last record observes is the one built from that record, be it a bare
\* address record or a service-name record.
C18_LaterObservationStored ==
    [][\A response \in Responses :
         (ProcessedStep(response) /\ AllRecords(response) # <<>>) =>
            LET all  == AllRecords(response)
                last == all[Len(all)]
                built == ExtractDeviceInfo(last, all)
                bare == [name |-> last.name, ip |-> last.data, port |-> 8060,
                         type |-> "roku", text |-> NoData]
            IN  /\ (last.type = "A" /\ last.data # NoData /\ ~ContainsRoku(last.name)) =>
                      \E i \in 1..Len(discoveredMap') : discoveredMap'[i] = bare
                /\ (last.type # "A" /\ ContainsRoku(last.name) /\ built.ip # NoData) =>
                      \E i \in 1..Len(discoveredMap') : discoveredMap'[i] = built]_vars

\* C19: a record whose name holds the marker becomes a descriptor when an
\* address record of the same name is in the same response or was seen in an
\* earlier response of the session (the map then holds an entry of that name,
\* built from that address record, and the descriptor takes its place unless
\* the response observes that address again); otherwise it adds nothing.
C19_CorrelatesWithSession ==
    [][\A response \in Responses :
         ProcessedStep(response) =>
            LET all == AllRecords(response)
            IN  \A k \in 1..Len(all) :
                  LET built == ExtractDeviceInfo(all[k], all)
                  IN  (all[k].name # NoData /\ ContainsRoku(all[k].name)) =>
                        /\ built.ip # NoData =>
                              \E j \in 1..Len(discoveredMap') :
                                  /\ discoveredMap'[j].ip = built.ip
                                  /\ discoveredMap'[j].name = built.name
                        /\ built.ip = NoData =>
                              \A i \in 1..Len(discoveredMap) :
                                  (/\ discoveredMap[i].name = all[k].name
                                   /\ \A n \in 1..Len(all) :
                                         all[n].data # discoveredMap[i].ip) =>
                                      \E j \in 1..Len(discoveredMap') :
                                          discoveredMap'[j] =
                                              [built EXCEPT !.ip = discoveredMap[i].ip]
                        /\ (/\ built.ip = NoData
                            /\ \A i \in 1..Len(discoveredMap) :
                                  discoveredMap[i].name # all[k].name
                            /\ \A m \in 1..Len(all) :
                                  all[m].type = "A" => all[m].data = NoData) =>
                              discoveredMap' = discoveredMap]_vars

\* the step is the handler receiving response while the session listens; at
\* the cap the handler does not read the response
ReceivedStep(response) ==
    /\ lastEvent' = "response"
    /\ promiseState = "pending"
    /\ destroyCalls = 0
    /\ Len(discoveredMap) < maxDevices => ProcessedStep(response)

\* C20: every A record with data in the answers or additionals of a response
\* received while the session is listening makes its address a key of the
\* session map afterwards, with port 8060 and type roku, whether or not a
\* service-name record confirms it.
C20_AddressRecordsAccepted ==
    [][\A response \in Responses :
         ReceivedStep(response) =>
            LET all == AllRecords(response)
            IN  \A k \in 1..Len(all) :
                  (all[k].type = "A" /\ all[k].data # NoData) =>
                      \E j \in 1..Len(discoveredMap') :
                          /\ discoveredMap'[j].ip = all[k].data
                          /\ discoveredMap'[j].port = 8060
                          /\ discoveredMap'[j].type = "roku"]_vars

(***************************************************************************)
(* Properties of the protocol translator and the command router.           *)
(***************************************************************************)
\* the outbound request failed: a reply of status >= 400, or no reply
RequestFailed(outcome) ==
    \/ outcome.kind = "response" /\ outcome.status >= 400
    \/ outcome.kind = "error"

Condition(error) ==
    CASE error.kind = "RokuApiError"      -> "ProtocolError"
      [] error.kind = "CannotConnect"     -> "DeviceUnreachable"
      [] error.kind = "ConnectionTimeout" -> "DeviceTimeout"
      [] OTHER                            -> "Unclassified"

\* the tokens of ip occur in url, in order and adjacent
ContainsAddress(url, ip) ==
    \E k \in 0..(Len(url) - Len(ip)) : \A i \in 1..Len(ip) : url[k + i] = ip[i]

\* C7: every failure of a translator operation is one of ProtocolError (status
\* >= 400), DeviceUnreachable (connection refused, the message holding the
\* address) and DeviceTimeout (connection timeout, expiry of the request
\* timeout, name resolution failure); none reaches the caller unclassified.
C7_EveryFailureClassified ==
    (rpc = "responded" /\ opResult.kind = "throw") =>
        /\ Condition(opResult.error) # "Unclassified"
        /\ axiosResult.kind = "response" => Condition(opResult.error) = "ProtocolError"
        /\ axiosResult.code = "ECONNREFUSED" =>
              /\ Condition(opResult.error) = "DeviceUnreachable"
              /\ ContainsAddress(opResult.error.url, req.ip)
        /\ axiosResult.code \in {"ETIMEDOUT", "ECONNABORTED", "ENOTFOUND"} =>
              Condition(opResult.error) = "DeviceTimeout"

\* C8: a media-state query whose outbound request failed returns the record
\* {available: false, error: message} and the router answers with a success
\* envelope carrying that record.
C8_MediaNeverPropagates ==
    (rpc = "responded" /\ req.endpoint = "media" /\ RequestFailed(axiosResult)) =>
        /\ opResult.kind = "return"
        /\ opResult.value = [tag |-> "media", available |-> FALSE,
                             error |-> MakeRequest(axiosResult, call.url).error]
        /\ opResult.value.error # NoError
        /\ envelope = [status |-> 200, success |-> TRUE, data |-> opResult.value,
                       error |-> NoError]

\* a media query answered after the device replied 404
C8_Witness ==
    /\ rpc = "responded"
    /\ req.endpoint = "media"
    /\ axiosResult.kind = "response"
    /\ axiosResult.status = 404
    /\ envelope.success

\* the reply is a document without an app record
NoAppRecord(body) ==
    body.wellFormed /\ (body.root # "active-app" \/ body.apps = <<>>)

\* C9: an active-app query whose successful reply holds no app record returns
\* null and the router answers success with data null; null is returned only
\* in that case, never for an unparseable reply or a failed request.
C9_NullOnlyForHomeScreen ==
    (rpc = "responded" /\ req.endpoint = "active") =>
        /\ (~RequestFailed(axiosResult) /\ NoAppRecord(axiosResult.body)) =>
              /\ opResult = Returned(Null)
              /\ envelope = [status |-> 200, success |-> TRUE, data |-> Null,
                             error |-> NoError]
        /\ (opResult = Returned(Null) \/ (envelope.success /\ envelope.data = Null)) =>
              (~RequestFailed(axiosResult) /\ NoAppRecord(axiosResult.body))

\* C10: a keypress, text or launch request whose required field is missing or
\* empty is answered with a failure envelope and a non-2xx status, and no
\* outbound request is issued for it.
C10_MissingFieldRejected ==
    (rpc # "idle" /\ req.endpoint \in CommandEndpoints /\ Falsy(req.arg)) =>
        /\ outbound = <<>>
        /\ rpc \in {"received", "responded"}
        /\ rpc = "responded" =>
              /\ ~envelope.success
              /\ envelope.error # NoError
              /\ envelope.status >= 300

\* a text request with an empty text has been answered
C10_Witness ==
    /\ rpc = "responded"
    /\ req.endpoint = "text"
    /\ req.arg = Field(<<>>)
    /\ envelope.status = 400

\* C11: every response of a route is an envelope whose success flag is true
\* exactly when the status is 2xx; a failed operation gives success false, an
\* error message and a non-2xx status, a successful one success true and no
\* error field.
C11_EnvelopeMatchesStatus ==
    rpc = "responded" =>
        /\ envelope.success <=> envelope.status \in 200..299
        /\ envelope.success => envelope.error = NoError
        /\ ~envelope.success => envelope.error # NoError
        /\ opResult.kind = "throw" =>
              (~envelope.success /\ envelope.error = opResult.error)
        /\ opResult.kind = "return" => envelope.success

\* an apps query that failed has been answered
C11_Witness ==
    /\ rpc = "responded"
    /\ req.endpoint = "apps"
    /\ opResult.kind = "throw"
    /\ envelope.status = 500

\* C14: the apps query maps each app element of the reply to a record whose id,
\* type and version are the element's attributes and whose name is the
\* element's text, also for elements that carry a version attribute.
C14_AppsNamedByText ==
    (/\ rpc = "responded"
     /\ req.endpoint = "apps"
     /\ ~RequestFailed(axiosResult)
     /\ axiosResult.body.wellFormed
     /\ axiosResult.body.root = "apps"
     /\ \A i \in 1..Len(axiosResult.body.apps) : axiosResult.body.apps[i].attrs) =>
        LET apps == axiosResult.body.apps
        IN  /\ opResult.kind = "return"
            /\ opResult.value.tag = "list"
            /\ opResult.value.items =
                  [i \in 1..Len(apps) |->
                      [tag |-> "app", id |-> apps[i].id, name |-> apps[i].text,
                       type |-> apps[i].type, version |-> apps[i].version]]
            /\ envelope.success
            /\ envelope.data = opResult.value

C15_NormalizeFillsDefaults ==
    normalized # NotNormalized =>
        /\ normalized.ip = stored.ip
        /\ normalized.name = (IF stored.name = NoData THEN "Unknown Roku Device"
                              ELSE stored.name)
        /\ stored.port # 0 => normalized.port = stored.port
        /\ stored.port = 0 => normalized.port = 8060
        /\ normalized.type = (IF stored.type = NoData THEN "roku" ELSE stored.type)
        /\ normalized.url = <<"http://", stored.ip, ":", normalized.port>>
        /\ (stored.ip = "10.0.0.5" /\ stored.port = 0) =>
              (normalized.port = 8060
               /\ normalized.url = <<"http://", "10.0.0.5", ":", 8060>>)

\* a descriptor with a port of its own and no name has been normalized
C15_Witness ==
    /\ normalized # NotNormalized
    /\ stored.name = NoData
    /\ stored.port = 8061
    /\ normalized.url = <<"http://", stored.ip, ":", 8061>>

(***************************************************************************)
(* Properties of the presentation layer.                                   *)
(***************************************************************************)
\* C12: the active-app query is re-issued only while a device is connected:
\* whenever an interval timer is armed, currentDevice is not null, also after
\* a later connect attempt has failed.
C12_PollsOnlyWhileConnected == intervals # {} => currentDevice # Null

\* C13: the address stored under 'roku_device_ip' is the address of the most
\* recent connect call that succeeded; a failed call and a call rejected for
\* an empty address leave it unchanged.
C13_StoredIsLastSucceeded ==
    /\ localStorage = lastSucceeded
    /\ uiEvent.kind = "connected" => localStorage = uiEvent.ip

\* after a connect call of this visit succeeded, a call to another address
\* has failed
C13_Witness ==
    /\ uiEvent.kind = "failed"
    /\ rokuCurrentDevice # Null
    /\ localStorage = rokuCurrentDevice.ip
    /\ uiEvent.ip # localStorage

\* C21: after any sequence of connect attempts at most one interval timer is
\* armed, the one autoRefreshInterval holds: startAutoRefresh clears the timer
\* armed before it arms the next.
C21_OnePollingTimer ==
    /\ Cardinality(intervals) <= 1
    /\ autoRefreshInterval = NoTimer => intervals = {}
    /\ autoRefreshInterval # NoTimer =>
          intervals = {[id |-> autoRefreshInterval, delay |-> AutoRefreshDelay]}

\* a connect has succeeded while the timer of an earlier connect was armed
C21_Witness ==
    /\ uiEvent.kind = "connected"
    /\ uiEvent.rearmed
    /\ Cardinality(intervals) = 1

\* C22: when connect calls to different addresses were pending together and
\* the last of them has returned with a device, the stored address, the
\* address of currentDevice and the address in the field, to which commands
\* and polls go, are the same address.
C22_RacingConnectsAgree ==
    [][(/\ racing # {}
        /\ Trim(ipInput) \in racing
        /\ InFlight(connecting) = 1
        /\ InFlight(connecting') = 0
        /\ uiEvent'.kind = "connected") =>
           /\ currentDevice' # Null
           /\ currentDevice'.ip = localStorage'
           /\ Trim(ipInput') = localStorage']_vars

\* C23: "Home Screen" is shown only when the device reported no active app: a
\* refresh whose active-app request failed (device unreachable, timeout,
\* failure envelope) leaves the displayed active app unchanged.
C23_FailedPollKeepsDisplay ==
    [][\A target \in DOMAIN polling, reply \in PollReplies :
         (reply.kind = "failed" /\ PollReturns(target, reply)) =>
            activeAppName' = activeAppName]_vars

====
